---- MODULE Spec2Model ----
(***************************************************************************)
(* TREA & FWEA cloud API (src/trea_fwea_cloud_api.py): the event store,    *)
(* its durable JSONL log, the publish pipeline (payload normalisation,     *)
(* validation, append) and the token-protected NDJSON stream endpoint.     *)
(***************************************************************************)
EXTENDS Integers, Sequences, FiniteSets, TLC

(* ----------------------------- bounds ---------------------------------- *)
\* worker threads serving requests (app.run(threaded=True))
MaxThreads == 2
\* largest value the id counter takes
MaxId == 3
\* process restarts (new EventStore over the same durable log)
MaxRestarts == 1
\* how far the clock reading int(time.time()) of a run may lie past 1
MaxTicks == 0
\* lines of an arbitrary durable log found at startup
MaxLog == 3

(* ------------------------ JSON values and strings ---------------------- *)
\* A Python str is a sequence of one-character strings.
\* A JSON value after json.loads: an int, a float (whole-valued here), a str
\* or null, all of one record shape so that values compare.
JInt(n) == [t |-> "int", n |-> n, s |-> << >>]
JFlt(n) == [t |-> "float", n |-> n, s |-> << >>]
JStr(s) == [t |-> "str", n |-> 0, s |-> s]
JNull == [t |-> "null", n |-> 0, s |-> << >>]

\* dict.get(key, default)
Get(d, k, dflt) == IF k \in DOMAIN d THEN d[k] ELSE dflt

\* d[k] = v  /  dict(d) then assignment
Put(d, k, v) == [x \in (DOMAIN d) \cup {k} |-> IF x = k THEN v ELSE d[x]]

\* the empty dict
EmptyDict == [x \in {} |-> JNull]

IsSpace(c) == c = " "

RECURSIVE LStrip(_)
LStrip(s) == IF s # << >> /\ IsSpace(Head(s)) THEN LStrip(Tail(s)) ELSE s

RECURSIVE RStrip(_)
RStrip(s) ==
  IF s # << >> /\ IsSpace(s[Len(s)]) THEN RStrip(SubSeq(s, 1, Len(s) - 1)) ELSE s

\* str.strip()
Strip(s) == RStrip(LStrip(s))

Digits == <<"0", "1", "2", "3", "4", "5", "6", "7", "8", "9">>
IsDigitChar(c) == \E i \in 1..Len(Digits) : Digits[i] = c
DigitVal(c) == (CHOOSE i \in 1..Len(Digits) : Digits[i] = c) - 1

\* str.isdigit(): non-empty and every character a digit
IsDigit(s) == s # << >> /\ \A i \in 1..Len(s) : IsDigitChar(s[i])

RECURSIVE DigitsVal(_)
DigitsVal(s) ==
  IF s = << >> THEN 0 ELSE 10 * DigitsVal(SubSeq(s, 1, Len(s) - 1)) + DigitVal(s[Len(s)])

RECURSIVE NatStr(_)
NatStr(n) == IF n < 10 THEN <<Digits[n + 1]>> ELSE NatStr(n \div 10) \o <<Digits[(n % 10) + 1]>>

LowerCs == <<"a","b","c","d","e","f","g","h","i","j","k","l","m",
             "n","o","p","q","r","s","t","u","v","w","x","y","z">>
UpperCs == <<"A","B","C","D","E","F","G","H","I","J","K","L","M",
             "N","O","P","Q","R","S","T","U","V","W","X","Y","Z">>
UpperChar(c) ==
  IF \E i \in 1..Len(LowerCs) : LowerCs[i] = c
    THEN UpperCs[CHOOSE i \in 1..Len(LowerCs) : LowerCs[i] = c]
    ELSE c

\* str.upper()
Upper(s) == [i \in 1..Len(s) |-> UpperChar(s[i])]

\* str(v)
PyStr(v) ==
  CASE v.t = "str" -> v.s
    [] v.t = "int" -> IF v.n < 0 THEN <<"-">> \o NatStr(0 - v.n) ELSE NatStr(v.n)
    [] v.t = "float" ->
         (IF v.n < 0 THEN <<"-">> \o NatStr(0 - v.n) ELSE NatStr(v.n)) \o <<".", "0">>
    [] OTHER -> <<"N", "o", "n", "e">>

\* a numeric literal as int() and float() read it: optional sign, digits,
\* surrounding whitespace ignored
IsNumeral(s) ==
  LET u == Strip(s) IN
    \/ IsDigit(u)
    \/ u # << >> /\ Head(u) = "-" /\ IsDigit(Tail(u))
NumeralVal(s) ==
  LET u == Strip(s) IN IF Head(u) = "-" THEN 0 - DigitsVal(Tail(u)) ELSE DigitsVal(u)

\* int(v) raises for None and for a str that is no integer literal
IntRaises(v) == v.t = "null" \/ (v.t = "str" /\ ~IsNumeral(v.s))
PyInt(v) == IF v.t = "str" THEN NumeralVal(v.s) ELSE v.n

\* float(v) raises for None and for a str that is no number
FloatRaises(v) == v.t = "null" \/ (v.t = "str" /\ ~IsNumeral(v.s))
PyFloat(v) == IF v.t = "str" THEN NumeralVal(v.s) ELSE v.n

\* int(e.get(k, 0) or 0): a missing, null, zero or empty value counts as 0
KeyRaises(e, k) ==
  LET v == Get(e, k, JInt(0)) IN v.t = "str" /\ v.s # << >> /\ ~IsNumeral(v.s)
KeyInt(e, k) ==
  LET v == Get(e, k, JInt(0)) IN
    IF v.t = "null" \/ (v.t = "str" /\ v.s = << >>) THEN 0 ELSE PyInt(v)

(* ----------------------------- validation ------------------------------ *)
REQUIRED_FIELDS ==
  <<"ts", "trader_id", "action", "symbol", "volume", "sl", "tp",
    "position_id", "deal_ticket", "order_ticket", "magic", "comment">>

\* ACTIONS (a reserved word of TLA+, hence the spelling)
Actions ==
  { <<"O","P","E","N","_","B","U","Y">>,
    <<"O","P","E","N","_","S","E","L","L">>,
    <<"M","O","D","I","F","Y">>,
    <<"C","L","O","S","E">>,
    <<"B","U","Y">>,
    <<"S","E","L","L">>,
    <<"B","U","Y","_","M","A","R","K","E","T">>,
    <<"S","E","L","L","_","M","A","R","K","E","T">> }

\* the two legacy aliases accepted beside Actions
LegacyActions == { <<"O","P","E","N">>, <<"C","L","O","S","E","_","A","L","L">> }

\* only the first absent key is reported
MissingFieldsFirstOnly(evt) ==
  LET m == SelectSeq(REQUIRED_FIELDS, LAMBDA k : k \notin DOMAIN evt)
  IN IF m = << >> THEN m ELSE <<Head(m)>>

\* the required keys the event lacks, in REQUIRED_FIELDS order
MissingFields(evt) == SelectSeq(REQUIRED_FIELDS, LAMBDA k : k \notin DOMAIN evt)

IntKeys == {"position_id", "deal_ticket", "order_ticket", "magic"}
FloatKeys == {"volume", "sl", "tp"}
OptFloatKeys == {"acc_balance", "acc_equity"}

\* some coercion of the try block raises
CoercionRaises(evt) ==
  \/ \E k \in FloatKeys : FloatRaises(evt[k])
  \/ \E k \in IntKeys : IntRaises(evt[k])
  \/ "seq" \in DOMAIN evt /\ IntRaises(evt["seq"])
  \/ \E k \in OptFloatKeys : k \in DOMAIN evt /\ FloatRaises(evt[k])

\* the event after the coercions and the upper-casing of the action
Coerced(evt, now) ==
  [k \in DOMAIN evt |->
     CASE k = "ts" ->
            IF IsDigit(PyStr(evt[k])) THEN JInt(DigitsVal(PyStr(evt[k]))) ELSE JInt(now)
       [] k \in FloatKeys \cup OptFloatKeys -> JFlt(PyFloat(evt[k]))
       [] k \in IntKeys \cup {"seq"} -> JInt(PyInt(evt[k]))
       [] k = "action" -> JStr(Upper(PyStr(evt[k])))
       [] OTHER -> evt[k]]

\* validate_event: the failure class ("ok" when it returns normally), the
\* fields or value the failure names, and the event as validation leaves it
validate_event(evt, now) ==
  IF MissingFields(evt) # << >>
    THEN [err |-> "MissingFields", names |-> MissingFields(evt), evt |-> evt]
  ELSE IF CoercionRaises(evt)
    THEN [err |-> "InvalidTypes", names |-> << >>, evt |-> evt]
  ELSE IF /\ Coerced(evt, now)["action"].s \notin Actions
          /\ Coerced(evt, now)["action"].s \notin LegacyActions
    THEN [err |-> "UnsupportedAction",
          names |-> <<Coerced(evt, now)["action"].s>>, evt |-> Coerced(evt, now)]
  ELSE [err |-> "ok", names |-> << >>, evt |-> Coerced(evt, now)]

(* ------------------------------ the store ------------------------------ *)
\* list.sort(key=id) is stable: x goes after every element whose key is <= its own
InsertById(s, x) ==
  LET p == Cardinality({i \in 1..Len(s) : KeyInt(s[i], "id") <= KeyInt(x, "id")})
  IN SubSeq(s, 1, p) \o <<x>> \o SubSeq(s, p + 1, Len(s))

\* sort(reverse=True) of a list that is in ascending order
SortByIdDescending(s) == [i \in 1..Len(s) |-> s[Len(s) + 1 - i]]

RECURSIVE SortById(_)
SortById(s) ==
  IF s = << >> THEN << >> ELSE InsertById(SortById(SubSeq(s, 1, Len(s) - 1)), s[Len(s)])

\* the order of the keys is turned round
SeqIdGeq(a, b) ==
  \/ KeyInt(a, "seq") > KeyInt(b, "seq")
  \/ KeyInt(a, "seq") = KeyInt(b, "seq") /\ KeyInt(a, "id") >= KeyInt(b, "id")

\* the key (seq, id) of since_seq's sort, compared as Python compares tuples
SeqIdLeq(a, b) ==
  \/ KeyInt(a, "seq") < KeyInt(b, "seq")
  \/ KeyInt(a, "seq") = KeyInt(b, "seq") /\ KeyInt(a, "id") <= KeyInt(b, "id")

InsertBySeqId(s, x) ==
  LET p == Cardinality({i \in 1..Len(s) : SeqIdLeq(s[i], x)})
  IN SubSeq(s, 1, p) \o <<x>> \o SubSeq(s, p + 1, Len(s))

RECURSIVE SortBySeqId(_)
SortBySeqId(s) ==
  IF s = << >> THEN << >>
  ELSE InsertBySeqId(SortBySeqId(SubSeq(s, 1, Len(s) - 1)), s[Len(s)])

\* the key function of a sort raises on some element
SortRaises(s, k) == \E i \in 1..Len(s) : KeyRaises(s[i], k)

\* the record with the watermark's own id is sent again
SinceKeepsInclusive(e, since_id) == KeyInt(e, "id") >= since_id

\* which records since keeps
SinceKeeps(e, since_id) == KeyInt(e, "id") > since_id

\* EventStore.since: the list returned, or the exception it raises
since(evs, since_id) ==
  LET picked == IF since_id <= 0 THEN evs
                ELSE SelectSeq(evs, LAMBDA e : SinceKeeps(e, since_id))
  IN IF (since_id > 0 /\ SortRaises(evs, "id")) \/ SortRaises(picked, "id")
       THEN [raises |-> TRUE, out |-> << >>]
       ELSE [raises |-> FALSE, out |-> SortById(picked)]

\* the record at the watermark is sent again
SinceSeqKeepsInclusive(e, tk, n) ==
  /\ "trader_key" \in DOMAIN e
  /\ e["trader_key"] = JStr(tk)
  /\ KeyInt(e, "seq") >= n

\* which records since_seq keeps for the stripped key tk
SinceSeqKeeps(e, tk, n) ==
  /\ "trader_key" \in DOMAIN e
  /\ e["trader_key"] = JStr(tk)
  /\ KeyInt(e, "seq") > n

\* EventStore.since_seq
since_seq(evs, trader_key, n) ==
  LET tk == Strip(trader_key)
      mine == SelectSeq(evs, LAMBDA e : Get(e, "trader_key", JNull) = JStr(tk))
      picked == SelectSeq(evs, LAMBDA e : SinceSeqKeeps(e, tk, n))
  IN IF tk = << >> THEN [raises |-> FALSE, out |-> << >>]
     ELSE IF SortRaises(mine, "seq") \/ SortRaises(picked, "id")
       THEN [raises |-> TRUE, out |-> << >>]
       ELSE [raises |-> FALSE, out |-> SortBySeqId(picked)]

\* "not tk": a missing, null, empty or zero trader_key
Falsy(v) ==
  \/ v.t = "null"
  \/ v.t = "str" /\ v.s = << >>
  \/ v.t \in {"int", "float"} /\ v.n = 0

\* the loop of last_seq_by_trader from position i down to 1, with the dict
\* built so far: a key already met is skipped, the scan stops once the dict
\* has reached limit entries
RECURSIVE LastScan(_, _, _, _)
LastScan(evs, i, last, limit) ==
  IF i = 0 THEN last
  ELSE LET tk == Get(evs[i], "trader_key", JNull)
           more == Put(last, tk, KeyInt(evs[i], "seq"))
       IN IF Falsy(tk) \/ tk \in DOMAIN last THEN LastScan(evs, i - 1, last, limit)
          ELSE IF Cardinality(DOMAIN more) >= limit THEN more
          ELSE LastScan(evs, i - 1, more, limit)

\* EventStore.last_seq_by_trader: the dict from trader_key value to seq
last_seq_by_trader(evs, limit) == LastScan(evs, Len(evs), [x \in {} |-> 0], limit)

\* EventStore.stats (uptime_s left out: the run has one clock reading)
stats(evs, lid) == [count |-> Len(evs), last_id |-> lid]

(* --------------------------- the durable log --------------------------- *)
\* A line of the JSONL file: a JSON object ("obj", with the dict it parses
\* to), a blank line, text that is not JSON ("garbage"), JSON that is no
\* object ("nonobj"), or a fragment a failed write left at the end of the
\* file with no newline ("torn").
Line(kind, d) == [k |-> kind, o |-> d]

\* one character that UTF-8 cannot encode (a lone surrogate, "\ud800")
Surrogate == "^"

\* f.write raises UnicodeEncodeError when a str of the record holds one
Encodable(evt) ==
  \A k \in DOMAIN evt : \A i \in 1..Len(evt[k].s) : evt[k].s[i] # Surrogate

\* the file is opened with "w": the new line replaces what it held
AppendLineTruncating(log, evt) == <<Line("obj", evt)>>

\* open(path, "a") then write(json.dumps(evt) + "\n"): the text lands after
\* whatever the file ends with, so after a fragment it completes a line that
\* is no JSON
AppendLine(log, evt) ==
  IF log # << >> /\ log[Len(log)].k = "torn"
    THEN SubSeq(log, 1, Len(log) - 1) \o <<Line("garbage", EmptyDict)>>
    ELSE Append(log, Line("obj", evt))

\* a write that raises after part of the text reached the file
AppendTorn(log) ==
  IF log # << >> /\ log[Len(log)].k = "torn" THEN log
  ELSE Append(log, Line("torn", EmptyDict))

\* the lines of the file for which json.loads returns a dict
ParsedObjects(log) == SelectSeq(log, LAMBDA l : l.k = "obj")

\* the counter is not restored from the file
MaxLoadedIdForgotten(objs) == 0

RECURSIVE MaxLoadedId(_)
\* self._last_id after the loop: max over the dicts whose id converts
MaxLoadedId(objs) ==
  IF objs = << >> THEN 0
  ELSE LET m == MaxLoadedId(SubSeq(objs, 1, Len(objs) - 1))
           e == objs[Len(objs)].o
       IN IF KeyRaises(e, "id") THEN m
          ELSE IF KeyInt(e, "id") > m THEN KeyInt(e, "id") ELSE m

\* EventStore._load_from_disk: every dict is appended before its id is
\* converted; the final sort is abandoned when a key raises
LoadEvents(log) ==
  LET evs == [i \in 1..Len(ParsedObjects(log)) |-> ParsedObjects(log)[i].o]
  IN IF SortRaises(evs, "id") THEN evs ELSE SortById(evs)

_load_from_disk(log) ==
  [events |-> LoadEvents(log), last_id |-> MaxLoadedId(ParsedObjects(log))]

(* ------------------------------- access -------------------------------- *)
DEFAULT_TOKENS ==
  { <<"T","R","E","A","_","D","E","V","_","T","O","K","E","N","_","0","0","1">>,
    <<"F","W","E","A","_","D","E","V","_","T","O","K","E","N","_","0","0","1">> }

\* TFA_VALID_TOKENS unset: the allow-list is the default one
VALID_TOKENS == DEFAULT_TOKENS

\* The Authorization header: its scheme word (the text before the first
\* space, "" when the header is absent) and the text after that space.
Header(scheme, cred) == [scheme |-> scheme, cred |-> cred]
NoHeader == Header("", << >>)

\* request.args.get(name, dflt)
Arg(args, name, dflt) == IF name \in DOMAIN args THEN args[name] ELSE dflt

\* the ?token= fallback is not consulted
PresentedTokenHeaderOnly(rq) ==
  IF rq.auth.scheme = "Bearer" THEN Strip(rq.auth.cred) ELSE << >>

\* the token require_token_flexible checks: the Bearer credential, else ?token=
PresentedToken(rq) ==
  LET bearer == IF rq.auth.scheme = "Bearer" THEN Strip(rq.auth.cred) ELSE << >>
  IN IF bearer # << >> THEN bearer ELSE Strip(Arg(rq.args, "token", << >>))

\* the status require_token_flexible answers with; 200 lets the handler run
require_token_flexible(rq) ==
  IF PresentedToken(rq) = << >> THEN 401
  ELSE IF PresentedToken(rq) \notin VALID_TOKENS THEN 403
  ELSE 200

\* int(text) of a query parameter, 0 when it raises
IntOrZero(s) == IF IsNumeral(s) THEN NumeralVal(s) ELSE 0

(* ------------------------- payload normalisation ----------------------- *)
\* A request body, by what the parsing strategies of publish make of it:
\*   "obj"      the text of one JSON object
\*   "nulobj"   such a text polluted with BOM / NUL bytes or padded with blanks
\*   "dbl"      a JSON string whose content is the text of a JSON object
\*   "junkobj"  a JSON object with stray text before or after it
\*   "nonobj"   JSON that is no object and no string (a list, a number)
\*   "garbage"  text that is no JSON and holds no object
\*   "empty"    no bytes
\* o is the dict the object parses to.
Body(kind, d) == [k |-> kind, o |-> d]

\* 1) request.get_json(force=True, silent=True) gives a dict
DirectParse(b) == b.k = "obj"
\* 2) json.loads of the cleaned text gives a dict, or a str that loads to one
TextParse(b) == b.k \in {"obj", "nulobj", "dbl"}
\* 3) json.loads of text[first "{" .. last "}"] gives a dict
SliceParse(b) == b.k \in {"obj", "nulobj", "junkobj"}
\* 4) json.loads of a cleaned form value gives a dict
FormParse(b) == b.k \in {"obj", "nulobj"}

FormKeys == <<"json", "data", "body">>

\* the first form key, in FormKeys order, whose value parses to a dict (0: none)
FormHit(form) ==
  LET hits == {i \in 1..Len(FormKeys) :
                 FormKeys[i] \in DOMAIN form /\ FormParse(form[FormKeys[i]])}
  IN IF hits = {} THEN 0 ELSE CHOOSE i \in hits : \A j \in hits : i <= j

\* publish begins with request.get_data(cache=False), which reads the request
\* stream and keeps no copy. get_json and request.form read the stream after
\* that: they see the body only where the server can serve it a second time
\* (rq.rewind); otherwise get_json has nothing to parse and the form is empty.
BodySeenAgain(rq) == IF rq.rewind THEN rq.body ELSE [k |-> "empty", o |-> rq.body.o]
FormSeen(rq) == IF rq.rewind THEN rq.form ELSE [x \in {} |-> rq.body]

\* the strategies in order: which one produced data (0: none) and the dict
Normalize(rq) ==
  IF DirectParse(BodySeenAgain(rq)) THEN [via |-> 1, data |-> rq.body.o]
  ELSE IF TextParse(rq.body) THEN [via |-> 2, data |-> rq.body.o]
  ELSE IF SliceParse(rq.body) THEN [via |-> 3, data |-> rq.body.o]
  ELSE IF FormHit(FormSeen(rq)) # 0
    THEN [via |-> 4, data |-> rq.form[FormKeys[FormHit(FormSeen(rq))]].o]
  ELSE [via |-> 0, data |-> EmptyDict]

\* raw_bytes[:400]
PreviewBytes == 400

\* the diag object of the BadPayload answer, the preview by its length
Diag(rq) ==
  [content_type |-> rq.ct, raw_len |-> rq.raw_len,
   raw_preview |-> IF rq.raw_len < PreviewBytes THEN rq.raw_len ELSE PreviewBytes]

(* ------------------------------- state -------------------------------- *)
VARIABLES
  persist,       \* self._persist_path is not empty
  events,        \* self._events
  last_id,       \* self._last_id
  disk,          \* the lines of the file at self._persist_path
  lock,          \* the thread holding self._lock, 0 when it is free
  pc,            \* where each worker thread is in publish / add
  evt,           \* add's evt, then evt_copy, of each thread
  evt_id,        \* add's evt_id of each thread
  wrote,         \* how _append_to_disk ended for each thread
  floor,         \* history: the largest id returned before the thread's add began
  returned,      \* history: the ids add returned in this process, in return order
  everReturned,  \* history: the ids add returned in earlier processes, each with
                 \* whether its write had succeeded
  life,          \* history: how many times the process was restarted
  c0,            \* history: the id counter when this process started serving
  n0,            \* history: the length of the sequence at that moment
  old,           \* history: the sequence the previous process held when it was
                 \* restarted (kept in full when every write of it had succeeded)
  now,           \* int(time.time()), one reading for the whole bounded run
  resp,          \* the response of the request that completed last
  consumer       \* a polling client of the stream endpoint: the producer key it
                 \* follows ("" for the global cursor), its cursor, and the
                 \* records it has received so far, in order of receipt

vars == <<persist, events, last_id, disk, lock, pc, evt, evt_id, wrote, floor,
          returned, everReturned, life, c0, n0, old, now, resp, consumer>>

Threads == 1..MaxThreads

NoArgs == [x \in {} |-> << >>]
NoForm == [x \in {} |-> Body("empty", EmptyDict)]
\* a POST with its Content-Type header, the number of bytes of its body, and
\* whether the server can serve the body a second time
SizedReq(body, form, ct, raw_len, rewind) ==
  [body |-> body, form |-> form, auth |-> NoHeader, args |-> NoArgs,
   ct |-> ct, raw_len |-> raw_len, rewind |-> rewind]
PubReq(body, form) ==
  SizedReq(body, form, "application/json", IF body.k = "empty" THEN 0 ELSE 1, FALSE)
GetReq(auth, args) ==
  [body |-> Body("empty", EmptyDict), form |-> NoForm, auth |-> auth, args |-> args,
   ct |-> "", raw_len |-> 0, rewind |-> FALSE]

\* the diag object of a BadPayload answer; the preview is given by its length
NoDiag == [content_type |-> "", raw_len |-> 0, raw_preview |-> 0]
\* dict of str -> int returned by last_seq_by_trader
NoLast == [x \in {} |-> 0]

Resp(op, status, rq) ==
  [op |-> op, status |-> status, rq |-> rq, id |-> 0, err |-> "", names |-> << >>,
   via |-> 0, mode |-> "", body |-> << >>, lines |-> << >>, diag |-> NoDiag,
   last |-> NoLast, count |-> 0, last_id |-> 0, limit |-> 0]
NoResp == Resp("none", 0, GetReq(NoHeader, NoArgs))

RECURSIVE SeqMax(_)
SeqMax(s) ==
  IF s = << >> THEN 0
  ELSE LET m == SeqMax(Tail(s)) IN IF Head(s) > m THEN Head(s) ELSE m

InFlight == Cardinality({t \in Threads : pc[t] # "idle"})

\* a client that has not polled yet
NoConsumer == [key |-> << >>, cursor |-> 0, got |-> << >>]

\* nothing was restarted yet
NoOld == [n |-> 0, quiet |-> TRUE, allok |-> TRUE, events |-> << >>]

Init ==
  /\ persist \in BOOLEAN
  /\ events = << >>
  /\ last_id = 0
  /\ disk = << >>
  /\ lock = 0
  /\ pc = [t \in Threads |-> "idle"]
  /\ evt = [t \in Threads |-> EmptyDict]
  /\ evt_id = [t \in Threads |-> 0]
  /\ wrote = [t \in Threads |-> "none"]
  /\ floor = [t \in Threads |-> 0]
  /\ returned = << >>
  /\ everReturned = {}
  /\ life = 0
  /\ c0 = 0
  /\ n0 = 0
  /\ old = NoOld
  /\ now \in 1..(1 + MaxTicks)
  /\ resp = NoResp
  /\ consumer = NoConsumer

(* ------------------------------ publish ------------------------------- *)
\* the request is answered 400 before the store is touched
Rejected(rq) ==
  LET n == Normalize(rq) IN n.via = 0 \/ validate_event(n.data, now).err # "ok"

\* a rejection that has already drawn an id from the counter
PublishRejectBurnsId(t, rq) ==
  /\ last_id < MaxId
  /\ last_id' = last_id + 1
  /\ resp' = [Resp("publish", 400, rq) EXCEPT !.err = "BadPayload"]
  /\ UNCHANGED <<consumer, persist, events, disk, lock, pc, evt, evt_id, wrote,
                 floor, returned, everReturned, life, c0, n0, old, now>>

\* the 400 answers of publish: no dict (lines 359-376), or validate_event
\* raised ValueError (lines 383-384)
PublishReject(t, rq) ==
  /\ resp' = LET n == Normalize(rq)
                 v == validate_event(n.data, now)
             IN IF n.via = 0
                  THEN [Resp("publish", 400, rq) EXCEPT
                          !.err = "BadPayload", !.diag = Diag(rq)]
                  ELSE [Resp("publish", 400, rq) EXCEPT
                          !.err = v.err, !.names = v.names, !.via = n.via]
  /\ UNCHANGED <<consumer, persist, events, last_id, disk, lock, pc, evt, evt_id, wrote,
                 floor, returned, everReturned, life, c0, n0, old, now>>

\* validate_event returned: publish calls STORE.add(data)
PublishAccept(t, rq) ==
  /\ last_id + InFlight < MaxId
  /\ pc' = [pc EXCEPT ![t] = "calling"]
  /\ evt' = [evt EXCEPT ![t] = validate_event(Normalize(rq).data, now).evt]
  /\ floor' = [floor EXCEPT ![t] = SeqMax([i \in 1..Len(returned) |-> returned[i].id])]
  /\ resp' = NoResp
  /\ UNCHANGED <<consumer, persist, events, last_id, disk, lock, evt_id, wrote,
                 returned, everReturned, life, c0, n0, old, now>>

\* publish, up to the call of STORE.add
Publish(t, rq) ==
  /\ pc[t] = "idle"
  /\ IF Rejected(rq) THEN PublishReject(t, rq) ELSE PublishAccept(t, rq)

(* -------------------------------- add --------------------------------- *)
\* add without the with block: nothing is waited for
LockFreeUnguarded == TRUE

\* with self._lock: the lock can be taken
LockFree == lock = 0

\* self._last_id += 1
NextId(c) == c + 1

\* id and server_ts are set with setdefault, like ts
StampTrusting(e, id, t) ==
  LET a == IF "ts" \in DOMAIN e THEN e ELSE Put(e, "ts", JInt(t))
      b == IF "id" \in DOMAIN a THEN a ELSE Put(a, "id", JInt(id))
  IN IF "server_ts" \in DOMAIN b THEN b ELSE Put(b, "server_ts", JInt(t))

\* evt_copy: ts defaulted, id and server_ts stamped
Stamp(e, id, t) ==
  Put(Put(IF "ts" \in DOMAIN e THEN e ELSE Put(e, "ts", JInt(t)), "id", JInt(id)),
      "server_ts", JInt(t))

\* add takes the lock and advances the counter
AddEnter(t) ==
  /\ pc[t] = "calling"
  /\ LockFree
  /\ lock' = t
  /\ last_id' = NextId(last_id)
  /\ pc' = [pc EXCEPT ![t] = "entered"]
  /\ resp' = NoResp
  /\ UNCHANGED <<consumer, persist, events, disk, evt, evt_id, wrote, floor, returned,
                 everReturned, life, c0, n0, old, now>>

\* evt_id = self._last_id; the stamped copy is appended to self._events
AddStamp(t) ==
  /\ pc[t] = "entered"
  /\ evt_id' = [evt_id EXCEPT ![t] = last_id]
  /\ evt' = [evt EXCEPT ![t] = Stamp(evt[t], last_id, now)]
  /\ events' = Append(events, Stamp(evt[t], last_id, now))
  /\ pc' = [pc EXCEPT ![t] = "stamped"]
  /\ resp' = NoResp
  /\ UNCHANGED <<consumer, persist, last_id, disk, lock, wrote, floor, returned,
                 everReturned, life, c0, n0, old, now>>

\* how a write to the file can end: the line is written, the write raises
\* with nothing written, or it raises after a fragment was written
WriteOutcomes == {"ok", "fail", "torn"}

\* the text never reaches the file
_append_to_disk_dropped(log, rec, outcome) == log

\* the file after _append_to_disk(rec) ended as outcome
_append_to_disk(log, rec, outcome) ==
  CASE outcome = "ok" -> AppendLine(log, rec)
    [] outcome = "torn" -> AppendTorn(log)
    [] OTHER -> log

\* what the write did, as the histories record it: a write that did not
\* raise but landed behind a fragment is "merged"
WriteResult(log, outcome) ==
  IF outcome = "ok" /\ log # << >> /\ log[Len(log)].k = "torn" THEN "merged" ELSE outcome

\* a failed write takes the record back out of the sequence
EventsRolledBack(evs, outcome) ==
  IF outcome \in {"fail", "torn"} THEN SubSeq(evs, 1, Len(evs) - 1) ELSE evs

\* the except clause of _append_to_disk only logs: self._events is what it
\* was, whatever the write did
EventsAfterWrite(evs, outcome) == evs

\* self._append_to_disk(evt_copy), still inside the with block; an exception
\* is logged and swallowed
AddDisk(t, outcome) ==
  /\ pc[t] = "stamped"
  /\ IF persist
       THEN /\ outcome \in WriteOutcomes
            /\ ~Encodable(evt[t]) => outcome = "fail"
            /\ disk' = _append_to_disk(disk, evt[t], outcome)
            /\ wrote' = [wrote EXCEPT ![t] = WriteResult(disk, outcome)]
       ELSE /\ outcome = "off"
            /\ disk' = disk
            /\ wrote' = [wrote EXCEPT ![t] = "off"]
  /\ events' = EventsAfterWrite(events, outcome)
  /\ pc' = [pc EXCEPT ![t] = "written"]
  /\ resp' = NoResp
  /\ UNCHANGED <<consumer, persist, last_id, lock, evt, evt_id, floor, returned,
                 everReturned, life, c0, n0, old, now>>

\* return evt_id: the lock is released and publish answers 200 with the id
AddReturn(t) ==
  /\ pc[t] = "written"
  /\ lock' = IF lock = t THEN 0 ELSE lock
  /\ pc' = [pc EXCEPT ![t] = "idle"]
  /\ returned' = Append(returned, [id |-> evt_id[t], floor |-> floor[t], w |-> wrote[t]])
  /\ resp' = [Resp("publish", 200, GetReq(NoHeader, NoArgs)) EXCEPT !.id = evt_id[t]]
  /\ evt' = [evt EXCEPT ![t] = EmptyDict]
  /\ evt_id' = [evt_id EXCEPT ![t] = 0]
  /\ wrote' = [wrote EXCEPT ![t] = "none"]
  /\ floor' = [floor EXCEPT ![t] = 0]
  /\ UNCHANGED <<consumer, persist, events, last_id, disk, everReturned, life, c0, n0, old, now>>

(* ------------------------------- stream ------------------------------- *)
\* _iter_ndjson: one line of JSON text per object, in the order given
_iter_ndjson(objs) == [i \in 1..Len(objs) |-> Line("obj", objs[i])]

\* the keyed cursor answers whenever a trader_key is given
stream_ndjson_KeyAlone(rq, evs) ==
  LET trader_key == Strip(Arg(rq.args, "trader_key", << >>))
      since_seq_raw == Strip(Arg(rq.args, "since_seq", << >>))
      since_arg == Arg(rq.args, "since", <<"0">>)
      since_raw == Strip(IF since_arg = << >> THEN <<"0">> ELSE since_arg)
      keyed == trader_key # << >>
      r == IF keyed THEN since_seq(evs, trader_key, IntOrZero(since_seq_raw))
           ELSE since(evs, IntOrZero(since_raw))
  IN IF require_token_flexible(rq) # 200
       THEN Resp("stream", require_token_flexible(rq), rq)
     ELSE IF r.raises
       THEN [Resp("stream", 500, rq) EXCEPT !.mode = IF keyed THEN "seq" ELSE "id"]
     ELSE [Resp("stream", 200, rq) EXCEPT
             !.mode = IF keyed THEN "seq" ELSE "id", !.body = r.out,
             !.lines = _iter_ndjson(r.out)]

\* stream_ndjson behind require_token_flexible: the response to rq when the
\* store holds evs
stream_ndjson(rq, evs) ==
  LET trader_key == Strip(Arg(rq.args, "trader_key", << >>))
      since_seq_raw == Strip(Arg(rq.args, "since_seq", << >>))
      since_arg == Arg(rq.args, "since", <<"0">>)
      since_raw == Strip(IF since_arg = << >> THEN <<"0">> ELSE since_arg)
      keyed == trader_key # << >> /\ since_seq_raw # << >>
      r == IF keyed THEN since_seq(evs, trader_key, IntOrZero(since_seq_raw))
           ELSE since(evs, IntOrZero(since_raw))
  IN IF require_token_flexible(rq) # 200
       THEN Resp("stream", require_token_flexible(rq), rq)
     ELSE IF r.raises
       THEN [Resp("stream", 500, rq) EXCEPT !.mode = IF keyed THEN "seq" ELSE "id"]
     ELSE [Resp("stream", 200, rq) EXCEPT
             !.mode = IF keyed THEN "seq" ELSE "id", !.body = r.out,
             !.lines = _iter_ndjson(r.out)]

\* the records a read returns are taken out of the sequence
StreamConsuming(rq) ==
  /\ require_token_flexible(rq) = 200 => LockFree
  /\ resp' = stream_ndjson(rq, events)
  /\ events' = SelectSeq(events, LAMBDA e : \A i \in 1..Len(resp'.body) : resp'.body[i] # e)
  /\ UNCHANGED <<consumer, persist, last_id, disk, lock, pc, evt, evt_id, wrote,
                 floor, returned, everReturned, life, c0, n0, old, now>>

\* one GET /api/v1/events/stream_ndjson; the store is read under its lock
Stream(rq) ==
  /\ require_token_flexible(rq) = 200 => LockFree
  /\ resp' = stream_ndjson(rq, events)
  /\ UNCHANGED <<consumer, persist, events, last_id, disk, lock, pc, evt, evt_id, wrote,
                 floor, returned, everReturned, life, c0, n0, old, now>>

\* the request of a polling client: ?since=<cursor>, or for the client of a
\* producer key ?trader_key=<key>&since_seq=<cursor>
PollRequest(c) ==
  [body |-> Body("empty", EmptyDict), form |-> NoForm,
   auth |-> Header("Bearer", CHOOSE tk \in VALID_TOKENS : tk[1] = "F"),
   args |-> IF c.key = << >>
              THEN [x \in {"since"} |-> NatStr(c.cursor)]
              ELSE [x \in {"trader_key", "since_seq"} |->
                      IF x = "trader_key" THEN c.key ELSE NatStr(c.cursor)],
   ct |-> "", raw_len |-> 0, rewind |-> FALSE]

\* the largest id (global cursor) or seq (keyed cursor) among the records
\* received, the old cursor when none was
CursorAfter(c, out) ==
  LET k == IF c.key = << >> THEN "id" ELSE "seq"
  IN IF out = << >> THEN c.cursor
     ELSE CHOOSE m \in {KeyInt(out[i], k) : i \in 1..Len(out)} :
            \A i \in 1..Len(out) : KeyInt(out[i], k) <= m

\* one poll of the client: a stream request with its cursor; the records of
\* the answer are taken in order and the cursor is moved
Poll ==
  /\ LockFree
  /\ resp' = stream_ndjson(PollRequest(consumer), events)
  /\ consumer' = [consumer EXCEPT
                    !.cursor = CursorAfter(consumer, resp'.body),
                    !.got = consumer.got \o resp'.body]
  /\ UNCHANGED <<persist, events, last_id, disk, lock, pc, evt, evt_id, wrote,
                 floor, returned, everReturned, life, c0, n0, old, now>>

\* the limit health passes to last_seq_by_trader
HealthLimit == 50

\* GET /api/v1/health: stats and last_seq_by_trader(limit=50), each read
\* under the store lock
Health ==
  /\ LockFree
  /\ resp' = [Resp("health", 200, GetReq(NoHeader, NoArgs)) EXCEPT
                !.count = stats(events, last_id).count,
                !.last_id = stats(events, last_id).last_id,
                !.limit = HealthLimit,
                !.last = last_seq_by_trader(events, HealthLimit)]
  /\ UNCHANGED <<consumer, persist, events, last_id, disk, lock, pc, evt, evt_id, wrote,
                 floor, returned, everReturned, life, c0, n0, old, now>>

\* a call of STORE.last_seq_by_trader(limit)
CallLastSeq(limit) ==
  /\ LockFree
  /\ resp' = [Resp("last_seq", 200, GetReq(NoHeader, NoArgs)) EXCEPT
                !.limit = limit, !.last = last_seq_by_trader(events, limit)]
  /\ UNCHANGED <<consumer, persist, events, last_id, disk, lock, pc, evt, evt_id, wrote,
                 floor, returned, everReturned, life, c0, n0, old, now>>

(* ------------------------------- restart ------------------------------ *)
\* EventStore.__init__ of a new process over the same file: the threads of
\* the old process are gone with whatever they had not finished
Restart ==
  /\ life < MaxRestarts
  /\ life' = life + 1
  /\ events' = IF persist THEN _load_from_disk(disk).events ELSE << >>
  /\ last_id' = IF persist THEN _load_from_disk(disk).last_id ELSE 0
  /\ c0' = last_id'
  /\ n0' = Len(events')
  /\ lock' = 0
  /\ pc' = [t \in Threads |-> "idle"]
  /\ evt' = [t \in Threads |-> EmptyDict]
  /\ evt_id' = [t \in Threads |-> 0]
  /\ wrote' = [t \in Threads |-> "none"]
  /\ floor' = [t \in Threads |-> 0]
  /\ everReturned' =
       everReturned \cup
         {[id |-> returned[i].id, ok |-> returned[i].w = "ok"] : i \in 1..Len(returned)}
  /\ returned' = << >>
  /\ old' = LET allok == \A i \in 1..Len(returned) : returned[i].w = "ok"
             IN [n |-> Len(events), quiet |-> InFlight = 0, allok |-> allok,
                 events |-> IF InFlight = 0 /\ allok THEN events ELSE << >>]
  /\ resp' = NoResp
  /\ UNCHANGED <<consumer, persist, disk, now>>

(* ------------------------------- inputs -------------------------------- *)
KeyA == <<"A">>
KeyB == <<"B">>
KeyPadded == <<" ", "A">>

\* an event as a producer sends it: every required field, values still in
\* the types the sender chose
BaseEvent ==
  [ts |-> JInt(5), trader_id |-> JStr(<<"T">>), action |-> JStr(<<"b", "u", "y">>),
   symbol |-> JStr(<<"E">>), volume |-> JStr(<<"2">>), sl |-> JInt(0), tp |-> JFlt(0),
   position_id |-> JInt(7), deal_ticket |-> JStr(<<"8">>), order_ticket |-> JInt(9),
   magic |-> JInt(0), comment |-> JStr(<< >>)]

Keyed(e, key) == Put(e, "trader_key", JStr(key))
WithSeq(e, n) == Put(e, "seq", JInt(n))
Without(e, k) == [x \in (DOMAIN e) \ {k} |-> e[x]]

\* events validate_event accepts
EvA2 == WithSeq(Keyed(BaseEvent, KeyA), 2)
EvA1 == WithSeq(Keyed(BaseEvent, KeyA), 1)
EvANoSeq == Keyed(BaseEvent, KeyA)
EvB1 == WithSeq(Keyed(BaseEvent, KeyB), 1)
EvPadded1 == WithSeq(Keyed(BaseEvent, KeyPadded), 1)
EvEmptyKey1 == WithSeq(Keyed(BaseEvent, << >>), 1)
EvPlain == BaseEvent
EvSurrogate == Put(BaseEvent, "comment", JStr(<<Surrogate>>))

\* an event that arrives with id and server_ts fields of its own
EvForged ==
  Put(Put(Put(EvA1, "id", JInt(9)), "server_ts", JInt(7)), "comment", JStr(<<"f">>))

\* events validate_event rejects
EvNoSymbol == Without(EvA1, "symbol")
EvBadVolume == Put(EvA1, "volume", JStr(<<"a", "b", "c">>))
EvTeleport == Put(EvA1, "action", JStr(<<"T","E","L","E","P","O","R","T">>))

JsonReq(e) == PubReq(Body("obj", e), NoForm)

RejectedReqs ==
  { JsonReq(EvNoSymbol), JsonReq(EvBadVolume), JsonReq(EvTeleport),
    PubReq(Body("garbage", EmptyDict), NoForm),
    PubReq(Body("nonobj", EmptyDict), [x \in {"data"} |-> Body("garbage", EmptyDict)]) }

\* the publish requests of the main specification
MainPub ==
  { PubReq(Body("dbl", EvA1), NoForm), JsonReq(EvSurrogate) }

Token1 == CHOOSE tk \in VALID_TOKENS : tk[1] = "T"
GoodAuth == Header("Bearer", Token1)
Query(name, text) == [x \in {name} |-> text]

MainStream == { GetReq(GoodAuth, NoArgs) }

\* the legacy reader: every kind of ?since= value
SinceTexts == { <<"0">>, <<"1">>, <<"2">>, <<"3">>, <<"-", "1">>, <<"x">>, <<" ">> }
ReadPub == { PubReq(Body("dbl", EvA1), NoForm), JsonReq(EvPlain) }
ReadStream ==
  { GetReq(GoodAuth, NoArgs) } \cup { GetReq(GoodAuth, Query("since", x)) : x \in SinceTexts }

\* credentials: Authorization headers and ?token= values
Token2 == CHOOSE tk \in VALID_TOKENS : tk[1] = "F"
BadToken == <<"X">>
AuthHeaders ==
  { NoHeader, Header("Bearer", Token1), Header("Bearer", <<" ">> \o Token2),
    Header("Bearer", BadToken), Header("Bearer", <<" ">>), Header("Basic", Token1) }
TokenTexts == { Token2, Token1 \o <<" ">>, BadToken, <<" ">> }
AccessPub == { JsonReq(EvA1) }
AccessStream ==
  { GetReq(h, NoArgs) : h \in AuthHeaders }
    \cup { GetReq(h, Query("token", x)) : h \in AuthHeaders, x \in TokenTexts }

\* publish requests of every kind, answered 400 or accepted
PublishPub == RejectedReqs \cup { JsonReq(EvA1), PubReq(Body("junkobj", EvPlain), NoForm) }

\* lines a durable log may hold when the process starts
LoggedRecord(n) == Stamp(validate_event(EvA1, 1).evt, n, 1)
BadIdRecord == Put(LoggedRecord(1), "id", JStr(<<"x">>))
LogLines ==
  { Line("blank", EmptyDict), Line("garbage", EmptyDict), Line("nonobj", EmptyDict),
    Line("obj", LoggedRecord(1)), Line("obj", LoggedRecord(2)), Line("obj", BadIdRecord) }
Logs == UNION { [1..n -> LogLines] : n \in 0..MaxLog }
RecoverPub == { JsonReq(EvPlain) }

\* publishers whose events carry identity fields of their own
StampPub == { JsonReq(EvForged), JsonReq(EvA2) }

\* the reads of the store: both cursors, health, last_seq_by_trader by limit
ReadsPub ==
  { JsonReq(EvA2), JsonReq(EvA1), JsonReq(EvB1), JsonReq(EvANoSeq), JsonReq(EvEmptyKey1) }
ReadsStream ==
  { GetReq(GoodAuth, NoArgs), GetReq(GoodAuth, Query("since", <<"1">>)),
    GetReq(GoodAuth, [x \in {"trader_key", "since_seq"} |->
                        IF x = "trader_key" THEN KeyA ELSE <<"0">>]),
    GetReq(GoodAuth, [x \in {"trader_key", "since_seq"} |->
                        IF x = "trader_key" THEN KeyB ELSE <<"1">>]) }
Limits == 0..2 \cup {HealthLimit}

\* events for validate_event: absent fields, a volume that is or is not a
\* number, actions in either case, supported or not, and null numbers
WithoutAll(e, ks) == [x \in (DOMAIN e) \ ks |-> e[x]]
AbsentSets == { {}, {"symbol"}, {"symbol", "comment"} }
VolumeValues == { JStr(<<"2">>), JStr(<<"a", "b", "c">>) }
ActionValues ==
  { JStr(<<"o","p","e","n","_","b","u","y">>), JStr(<<"T","E","L","E","P","O","R","T">>),
    JStr(<<"c","l","o","s","e","_","a","l","l">>) }
Vary(absent, volume, action) ==
  WithoutAll(Put(Put(EvA1, "volume", volume), "action", action), absent)
NullableKeys == {"sl", "tp", "position_id", "deal_ticket", "order_ticket", "magic"}
WithNulls(e, ks) == [x \in DOMAIN e |-> IF x \in ks THEN JNull ELSE e[x]]
NullEvents == { WithNulls(EvA1, {k}) : k \in NullableKeys } \cup { WithNulls(EvA1, NullableKeys) }
NullPub == { JsonReq(e) : e \in NullEvents }
ValidatePub ==
  { JsonReq(Vary(a, v, x)) : a \in AbsentSets, v \in VolumeValues, x \in ActionValues }
    \cup NullPub

\* bodies and forms for the payload normaliser; the objects differ in their
\* comment, so that the one handed on is recognised
EvBody == Put(EvA1, "comment", JStr(<<"x">>))
EvJson == Put(EvA1, "comment", JStr(<<"j">>))
EvData == Put(EvA1, "comment", JStr(<<"d">>))
EvBodyField == Put(EvA1, "comment", JStr(<<"b">>))
Field(name, b) == [x \in {name} |-> b]
Fields(n1, b1, n2, b2) == [x \in {n1, n2} |-> IF x = n1 THEN b1 ELSE b2]
Forms ==
  { NoForm,
    Field("json", Body("obj", EvJson)),
    Fields("json", Body("garbage", EmptyDict), "data", Body("obj", EvData)),
    Fields("data", Body("obj", EvData), "body", Body("obj", EvBodyField)),
    Fields("json", Body("nulobj", EvJson), "data", Body("obj", EvData)),
    Field("body", Body("garbage", EmptyDict)) }
UrlEncoded == "application/x-www-form-urlencoded"
NormalizePub ==
  { SizedReq(Body(k, EvBody), NoForm, "text/plain", 1, r) :
      k \in {"obj", "nulobj", "dbl", "junkobj"}, r \in BOOLEAN }
    \cup { SizedReq(Body("junkobj", EvBody), Field("json", Body("obj", EvJson)),
                    UrlEncoded, 1, r) : r \in BOOLEAN }
    \cup { SizedReq(Body("garbage", EmptyDict), f, UrlEncoded, n, r) :
             f \in Forms, n \in {PreviewBytes, PreviewBytes + 1}, r \in BOOLEAN }
    \cup { SizedReq(Body("nonobj", EmptyDict), NoForm, "application/json", 1, r) :
             r \in BOOLEAN }
    \cup { SizedReq(Body("empty", EmptyDict), NoForm, "", 0, r) : r \in BOOLEAN }

\* publishers beside a polling client
CursorPub == { JsonReq(EvA1), JsonReq(EvB1) }

\* publishers of several producer keys beside a client that follows one key
KeyCursorPub == { JsonReq(EvA1), JsonReq(EvA2), JsonReq(EvB1), JsonReq(EvPadded1) }
FollowedKeys == { KeyA, KeyPadded }

\* the keyed reader: keys and ?since_seq= values
KeyedPub ==
  { JsonReq(EvA2), JsonReq(EvA1), JsonReq(EvANoSeq), JsonReq(EvB1),
    JsonReq(EvPadded1), JsonReq(EvEmptyKey1) }
KeyTexts == { KeyA, KeyB, KeyPadded }
SeqTexts == { <<"0">>, <<"1">>, <<"-", "1">>, <<"x">> }
KeyedQuery(key, text) ==
  [x \in {"trader_key", "since_seq"} |-> IF x = "trader_key" THEN key ELSE text]
KeyedStream ==
  { GetReq(GoodAuth, KeyedQuery(key, x)) : key \in KeyTexts, x \in SeqTexts }

(* ---------------------------- specification ---------------------------- *)
\* one publish request from pubs, served by a thread of thr, with the write
\* ending as one of outs
Serve(thr, pubs, outs) ==
  \/ \E t \in thr : \E rq \in pubs : Publish(t, rq)
  \/ \E t \in thr : AddEnter(t)
  \/ \E t \in thr : AddStamp(t)
  \/ \E t \in thr : \E o \in outs \cup {"off"} : AddDisk(t, o)
  \/ \E t \in thr : AddReturn(t)

\* the whole service: concurrent publishers, a reader, failing writes, restarts
Next ==
  \/ Serve(Threads, MainPub, WriteOutcomes)
  \/ \E rq \in MainStream : Stream(rq)
  \/ Restart

Spec == Init /\ [][Next]_vars

\* one publisher and the legacy reader, with failing writes and restarts
NextRead ==
  \/ Serve({1}, ReadPub, {"ok", "fail"})
  \/ \E rq \in ReadStream : Stream(rq)
  \/ Restart

SpecRead == Init /\ [][NextRead]_vars

\* one publisher of several producers and the keyed reader
NextKeyed ==
  \/ Serve({1}, KeyedPub, {"ok"})
  \/ \E rq \in KeyedStream : Stream(rq)

SpecKeyed == Init /\ [][NextKeyed]_vars

\* one publisher and readers presenting every kind of credential
NextAccess ==
  \/ Serve({1}, AccessPub, {"ok"})
  \/ \E rq \in AccessStream : Stream(rq)

SpecAccess == Init /\ [][NextAccess]_vars

\* concurrent publishers sending acceptable and unacceptable requests
NextPublish ==
  \/ Serve(Threads, PublishPub, {"ok"})
  \/ \E rq \in MainStream : Stream(rq)

SpecPublish == Init /\ [][NextPublish]_vars

\* concurrent publishers, some sending id and server_ts themselves
\* stream requests with every combination of the three query parameters:
\* absent, empty, blank, padded, numeric and non-numeric
DispatchPub == { JsonReq(EvA2), JsonReq(EvA1), JsonReq(EvPadded1) }
NoText == <<"absent">>
TraderKeyTexts == { NoText, << >>, <<" ">>, KeyA, KeyPadded }
SinceSeqTexts == { NoText, << >>, <<" ">>, <<"0">>, <<"1">>, <<"x">> }
SinceIdTexts == { NoText, <<"1">>, <<"x">> }
DispatchArgs(k, n, i) ==
  LET given == {x \in {"trader_key", "since_seq", "since"} :
                  \/ x = "trader_key" /\ k # NoText
                  \/ x = "since_seq" /\ n # NoText
                  \/ x = "since" /\ i # NoText}
  IN [x \in given |-> IF x = "trader_key" THEN k ELSE IF x = "since_seq" THEN n ELSE i]
DispatchStream ==
  { GetReq(GoodAuth, DispatchArgs(k, n, i)) : k \in TraderKeyTexts, n \in SinceSeqTexts, i \in SinceIdTexts }

\* one publisher of several producers and readers choosing either cursor
NextDispatch ==
  \/ Serve({1}, DispatchPub, {"ok"})
  \/ \E rq \in DispatchStream : Stream(rq)

SpecDispatch == Init /\ [][NextDispatch]_vars

NextStamp ==
  \/ Serve(Threads, StampPub, {"ok", "fail"})
  \/ \E rq \in MainStream : Stream(rq)

SpecStamp == Init /\ [][NextStamp]_vars

\* one publisher of several producers and every read operation of the store
NextReads ==
  \/ Serve({1}, ReadsPub, {"ok"})
  \/ \E rq \in ReadsStream : Stream(rq)
  \/ Health
  \/ \E limit \in Limits : CallLastSeq(limit)

SpecReads == Init /\ [][NextReads]_vars

\* one publisher sending events of every validation class
NextValidate ==
  \/ Serve({1}, ValidatePub, {"ok"})
  \/ \E rq \in MainStream : Stream(rq)

SpecValidate == Init /\ [][NextValidate]_vars

\* one publisher sending payloads in every shape the normaliser knows
NextNormalize ==
  \/ Serve({1}, NormalizePub, {"ok"})
  \/ \E rq \in MainStream : Stream(rq)

SpecNormalize == Init /\ [][NextNormalize]_vars

\* concurrent publishers and a client that polls with the global cursor
NextCursor ==
  \/ Serve(Threads, CursorPub, {"ok"})
  \/ Poll

SpecCursor == Init /\ [][NextCursor]_vars

\* the service with a client that follows one producer key
InitKeyCursor ==
  /\ persist \in BOOLEAN
  /\ events = << >>
  /\ last_id = 0
  /\ disk = << >>
  /\ lock = 0
  /\ pc = [t \in Threads |-> "idle"]
  /\ evt = [t \in Threads |-> EmptyDict]
  /\ evt_id = [t \in Threads |-> 0]
  /\ wrote = [t \in Threads |-> "none"]
  /\ floor = [t \in Threads |-> 0]
  /\ returned = << >>
  /\ everReturned = {}
  /\ life = 0
  /\ c0 = 0
  /\ n0 = 0
  /\ old = NoOld
  /\ now \in 1..(1 + MaxTicks)
  /\ resp = NoResp
  /\ consumer \in {[NoConsumer EXCEPT !.key = k] : k \in FollowedKeys}

NextKeyCursor ==
  \/ Serve(Threads, KeyCursorPub, {"ok"})
  \/ Poll

SpecKeyCursor == InitKeyCursor /\ [][NextKeyCursor]_vars

\* a process that starts over a durable log of any content
InitRecover ==
  /\ persist = TRUE
  /\ disk \in Logs
  /\ events = _load_from_disk(disk).events
  /\ last_id = _load_from_disk(disk).last_id
  /\ c0 = last_id
  /\ n0 = Len(events)
  /\ lock = 0
  /\ pc = [t \in Threads |-> "idle"]
  /\ evt = [t \in Threads |-> EmptyDict]
  /\ evt_id = [t \in Threads |-> 0]
  /\ wrote = [t \in Threads |-> "none"]
  /\ floor = [t \in Threads |-> 0]
  /\ returned = << >>
  /\ everReturned = {}
  /\ life = 0
  /\ old = NoOld
  /\ now \in 1..(1 + MaxTicks)
  /\ resp = NoResp
  /\ consumer = NoConsumer

NextRecover ==
  \/ Serve({1}, RecoverPub, {"ok"})
  \/ \E rq \in MainStream : Stream(rq)

SpecRecover == InitRecover /\ [][NextRecover]_vars

(* ------------------------------- claims -------------------------------- *)
\* the ids add returned in this process, in return order
ReturnedIds == [i \in 1..Len(returned) |-> returned[i].id]

\* threads whose record is already in the sequence but whose add has not returned
Stamped == {t \in Threads : pc[t] \in {"stamped", "written"}}

\* C1: within one process lifetime that started with the counter at c0, the
\* ids add returned are pairwise distinct, lie in c0+1 .. last_id, are exactly
\* c0+1 .. c0+n once the n adds that were called have all returned, the
\* sequence has grown by exactly one record per add, and every id is greater
\* than every id returned before that add was called.
C1_SequentialIds ==
  /\ \A i, j \in 1..Len(returned) : i < j => ReturnedIds[i] # ReturnedIds[j]
  /\ \A i \in 1..Len(returned) : ReturnedIds[i] \in (c0 + 1)..last_id
  /\ \A i \in 1..Len(returned) : returned[i].id > returned[i].floor
  /\ Len(events) = n0 + Len(returned) + Cardinality(Stamped)
  /\ InFlight = 0 =>
       /\ {ReturnedIds[i] : i \in 1..Len(returned)} = (c0 + 1)..(c0 + Len(returned))
       /\ Len(events) = n0 + Len(returned)
       /\ last_id = c0 + Len(returned)

\* two adds that overlapped (the second was called before the first
\* returned) have both returned
C1_Witness ==
  /\ InFlight = 0
  /\ Len(returned) >= 2
  /\ \E i \in 1..Len(returned) : returned[i].id > c0 + 1 /\ returned[i].floor = 0

\* the object lines of the file
DiskObjects == {disk[i].o : i \in {j \in 1..Len(disk) : disk[j].k = "obj"}}

\* the stored records carrying id n
WithId(n) == {i \in 1..Len(events) : events[i]["id"] = JInt(n)}

\* add has just returned resp.id to publish
JustReturned == resp.op = "publish" /\ resp.status = 200

C7_WriteFailureKeepsAppend ==
  \A i \in 1..Len(returned) :
    returned[i].w \in {"fail", "torn"} =>
      LET id == returned[i].id IN
        /\ Cardinality(WithId(id)) = 1
        /\ LET e == events[CHOOSE j \in WithId(id) : TRUE]
               all == since(events, 0).out
               tail == since(events, id - 1).out
           IN /\ \E k \in 1..Len(all) : all[k] = e
              /\ tail # << >> /\ tail[1] = e
              /\ ("trader_key" \in DOMAIN e /\ "seq" \in DOMAIN e) =>
                   LET mine == since_seq(events, e["trader_key"].s, e["seq"].n - 1).out
                   IN \E k \in 1..Len(mine) : mine[k] = e
        /\ last_id >= id
        /\ (i = Len(returned) /\ JustReturned) => resp.id = id

\* a keyed record whose write raised was returned after an earlier record
C7_Witness ==
  \E i \in 1..Len(returned) :
    /\ returned[i].w \in {"fail", "torn"}
    /\ returned[i].id >= 2
    /\ \E j \in WithId(returned[i].id) : "trader_key" \in DOMAIN events[j]

\* the id of a stored record, read off the record
IdOf(e) == e["id"].n

\* the records since(k) is to return
Newer(k) == {j \in 1..Len(events) : k <= 0 \/ IdOf(events[j]) > k}

\* out is what the claim says since(k) returns
IsIdAnswer(out, k) ==
  /\ \A i \in 1..Len(out) : \E j \in Newer(k) : out[i] = events[j]
  /\ \A j \in Newer(k) : Cardinality({i \in 1..Len(out) : out[i] = events[j]}) = 1
  /\ Len(out) = Cardinality(Newer(k))
  /\ \A i, m \in 1..Len(out) : i < m => IdOf(out[i]) < IdOf(out[m])
  /\ \A p \in 1..Len(events) :
       k = IdOf(events[p]) => out = SubSeq(events, p + 1, Len(events))

\* C2: in every reachable store state since(k) raises nothing and returns
\* exactly the stored records with id > k (all of them when k <= 0), each
\* once, in ascending id order, which for an assigned id k are the records
\* appended after it; and so does every answer of the legacy stream read.
C2_SinceAnswer ==
  /\ \A k \in (0 - 1)..(MaxId + 1) :
       ~since(events, k).raises /\ IsIdAnswer(since(events, k).out, k)
  /\ (resp.op = "stream" /\ resp.mode = "id") =>
       /\ resp.status = 200
       /\ IsIdAnswer(resp.body,
                     IntOrZero(Strip(IF Arg(resp.rq.args, "since", << >>) = << >>
                                       THEN <<"0">> ELSE resp.rq.args["since"])))

\* a read past an assigned id returned a proper, non-empty part of the store
C2_Witness ==
  /\ resp.op = "stream" /\ resp.status = 200 /\ resp.mode = "id"
  /\ "since" \in DOMAIN resp.rq.args
  /\ IntOrZero(resp.rq.args["since"]) >= 1
  /\ Len(resp.body) >= 1
  /\ Len(events) > Len(resp.body)

\* the producer key and the seq of a stored record, read off the record
\* (a record without seq counts as seq 0)
HasKey(e) == "trader_key" \in DOMAIN e /\ e["trader_key"].t = "str"
KeyOf(e) == e["trader_key"].s
SeqOf(e) == IF "seq" \in DOMAIN e THEN e["seq"].n ELSE 0

\* the producer keys carried by stored records
StoredKeys == {KeyOf(events[j]) : j \in {i \in 1..Len(events) : HasKey(events[i])}}

\* the records since_seq(K, n) is to return
Matching(K, n) ==
  {j \in 1..Len(events) : HasKey(events[j]) /\ KeyOf(events[j]) = K /\ SeqOf(events[j]) > n}

\* out is what the claim says since_seq(K, n) returns
IsKeyedAnswer(out, K, n) ==
  /\ \A i \in 1..Len(out) : \E j \in Matching(K, n) : out[i] = events[j]
  /\ \A j \in Matching(K, n) : Cardinality({i \in 1..Len(out) : out[i] = events[j]}) = 1
  /\ Len(out) = Cardinality(Matching(K, n))
  /\ \A i, m \in 1..Len(out) :
       i < m => \/ SeqOf(out[i]) < SeqOf(out[m])
                \/ SeqOf(out[i]) = SeqOf(out[m]) /\ IdOf(out[i]) < IdOf(out[m])
  /\ n >= 0 => \A i \in 1..Len(out) : "seq" \in DOMAIN out[i]

Thresholds == (0 - 1)..2

\* C3 (as claimed): for every producer key K carried by a stored record and
\* every threshold n, since_seq(K, n) returns exactly the records of K with
\* seq > n, sorted by (seq, id), none of them without a seq when n >= 0.
C3_Original ==
  \A K \in StoredKeys : \A n \in Thresholds :
    ~since_seq(events, K, n).raises /\ IsKeyedAnswer(since_seq(events, K, n).out, K, n)

\* C3 (amended): the same for every stored producer key K that is not empty
\* and has no leading or trailing whitespace, and for every answer of the
\* keyed stream read, whose key is the stripped trader_key parameter.
C3_KeyedCursor ==
  /\ \A K \in StoredKeys : \A n \in Thresholds :
       (K # << >> /\ Strip(K) = K) =>
         /\ ~since_seq(events, K, n).raises
         /\ IsKeyedAnswer(since_seq(events, K, n).out, K, n)
  /\ (resp.op = "stream" /\ resp.mode = "seq") =>
       /\ resp.status = 200
       /\ IsKeyedAnswer(resp.body, Strip(resp.rq.args["trader_key"]),
                        IntOrZero(Strip(resp.rq.args["since_seq"])))

\* a keyed read returned two records of the key in seq order against their
\* id order, while the store held records of other keys and one without seq
C3_Witness ==
  /\ resp.op = "stream" /\ resp.status = 200 /\ resp.mode = "seq"
  /\ Len(resp.body) = 2
  /\ IdOf(resp.body[1]) > IdOf(resp.body[2])
  /\ Len(events) = 3

\* the lines of the file that are well-formed records: objects with an int id
WellFormed == {j \in 1..Len(disk) : disk[j].k = "obj" /\ disk[j].o["id"].t = "int"}

\* the process has recovered and no add has begun
JustRecovered == returned = << >> /\ InFlight = 0

\* C8 (as claimed): whatever the log holds, after recovery the sequence holds
\* exactly the well-formed records of the log in ascending id order, the
\* counter is their largest id, and since(0) succeeds.
C8_Original ==
  JustRecovered =>
    /\ Len(events) = Cardinality(WellFormed)
    /\ \A j \in WellFormed :
         Cardinality({i \in 1..Len(events) : events[i] = disk[j].o})
           = Cardinality({m \in WellFormed : disk[m].o = disk[j].o})
    /\ \A i, m \in 1..Len(events) : i < m => IdOf(events[i]) <= IdOf(events[m])
    /\ \A j \in WellFormed : IdOf(disk[j].o) <= last_id
    /\ (WellFormed # {} => \E j \in WellFormed : IdOf(disk[j].o) = last_id)
    /\ (WellFormed = {} => last_id = 0)
    /\ ~since(events, 0).raises

\* the requests C9 is about: a body no strategy parses, an event without
\* symbol, an event whose volume is "abc", an event whose action is TELEPORT
UnacceptableReqs == RejectedReqs

\* C9: a publish request of one of the rejected kinds is answered 400 and
\* changes nothing but the response: the sequence, the counter, the file and
\* every request in flight are as they were, so later ids are unaffected.
C9_RejectedAppendsNothing ==
  [][\A t \in Threads : \A rq \in UnacceptableReqs :
       Publish(t, rq) =>
         /\ resp'.op = "publish"
         /\ resp'.status = 400
         /\ UNCHANGED <<consumer, persist, events, last_id, disk, lock, pc, evt, evt_id, wrote,
                        floor, returned, everReturned, life, c0, n0, old, now>>]_vars

\* an event with a bad volume was rejected while the store held a record and
\* another publisher was inside add
C9_Witness ==
  /\ resp.op = "publish" /\ resp.status = 400 /\ resp.err = "InvalidTypes"
  /\ events # << >>
  /\ \E t \in Threads : pc[t] \in {"entered", "stamped", "written"}

\* C10: the stream endpoint answers 401 when neither a Bearer token nor a
\* token parameter is presented, 403 when the presented token (the Bearer
\* one, else the parameter) is not in the allow-list, and serves the read
\* when it is; a denied request carries no record.
C10_AccessGate ==
  resp.op = "stream" =>
    LET bearer == IF resp.rq.auth.scheme = "Bearer" THEN Strip(resp.rq.auth.cred) ELSE << >>
        param == IF "token" \in DOMAIN resp.rq.args THEN Strip(resp.rq.args["token"]) ELSE << >>
        presented == IF bearer # << >> THEN bearer ELSE param
    IN /\ (bearer = << >> /\ param = << >>) => resp.status = 401
       /\ (presented # << >> /\ presented \notin DEFAULT_TOKENS) => resp.status = 403
       /\ presented \in DEFAULT_TOKENS =>
            resp.status = 200 /\ resp.mode = "id" /\ IsIdAnswer(resp.body, 0)
       /\ resp.status \in {401, 403} => resp.body = << >>
       /\ resp.status \in {200, 401, 403}

\* a request with an unlisted token was denied while the store held records
C10_Witness ==
  /\ resp.op = "stream" /\ resp.status = 403
  /\ events # << >>

\* C11: when add stores a record, its id is the counter value that add
\* assigned and its server_ts the clock reading, whatever id or server_ts
\* the event given to add carried; every other field of the event, ts and
\* seq among them, is stored as given.
C11_StoreAssignsIdentity ==
  [][\A t \in Threads :
       (pc[t] = "entered" /\ pc'[t] = "stamped") =>
         LET given == evt[t]
             stored == events'[Len(events')]
         IN /\ Len(events') = Len(events) + 1
            /\ SubSeq(events', 1, Len(events)) = events
            /\ stored["id"] = JInt(last_id)
            /\ evt_id'[t] = last_id
            /\ stored["server_ts"] = JInt(now)
            /\ stored["ts"] = given["ts"]
            /\ ("seq" \in DOMAIN given => stored["seq"] = given["seq"])
            /\ DOMAIN stored = DOMAIN given \cup {"id", "server_ts"}
            /\ \A k \in DOMAIN given \ {"id", "server_ts"} : stored[k] = given[k]]_vars

\* the event that came with id 9 and server_ts 7 is stored second, with the
\* id and server_ts of the store and its own ts and seq
C11_Witness ==
  \E i \in 2..Len(events) :
    /\ events[i]["comment"] = EvForged["comment"]
    /\ events[i]["id"] = JInt(i)
    /\ events[i]["server_ts"] = JInt(now)
    /\ events[i]["ts"] = EvForged["ts"]
    /\ events[i]["seq"] = EvForged["seq"]

\* C12: a read (a stream request by either cursor, health with stats and
\* last_seq_by_trader, a call of last_seq_by_trader) leaves the sequence, the
\* counter and the file as they were, and the same read made again at once
\* gives the identical answer.
C12_ReadsChangeNothing ==
  [][resp'.op \in {"stream", "health", "last_seq"} =>
       /\ events' = events
       /\ last_id' = last_id
       /\ disk' = disk
       /\ resp'.op = "stream" => stream_ndjson(resp'.rq, events') = resp'
       /\ resp'.op \in {"health", "last_seq"} =>
            resp'.last = last_seq_by_trader(events', resp'.limit)
       /\ resp'.op = "health" =>
            resp'.count = Len(events') /\ resp'.last_id = last_id']_vars

\* a keyed read returned records of a store holding several
C12_Witness ==
  /\ resp.op = "stream" /\ resp.status = 200 /\ resp.mode = "seq"
  /\ Len(resp.body) >= 1
  /\ Len(events) >= 2

\* the producer keys of the stored records that last_seq_by_trader counts
CountedKeys ==
  {events[i]["trader_key"] :
     i \in {j \in 1..Len(events) : ~Falsy(Get(events[j], "trader_key", JNull))}}

\* the position of the most recently appended record of key k
Latest(k) ==
  CHOOSE i \in 1..Len(events) :
    /\ Get(events[i], "trader_key", JNull) = k
    /\ \A j \in (i + 1)..Len(events) : Get(events[j], "trader_key", JNull) # k

\* how many keys have a record newer than the newest record of k
Rank(k) == Cardinality({j \in CountedKeys : Latest(j) > Latest(k)})

\* C15 (as claimed): for every limit, last_seq_by_trader(limit) has at most
\* limit keys, namely the keys met first scanning from newest to oldest, each
\* mapped to the seq (0 when absent) of its most recently appended record.
C15_Original ==
  resp.op \in {"last_seq", "health"} =>
    /\ Cardinality(DOMAIN resp.last) <= resp.limit
    /\ DOMAIN resp.last = {k \in CountedKeys : Rank(k) < resp.limit}
    /\ \A k \in DOMAIN resp.last : resp.last[k] = KeyInt(events[Latest(k)], "seq")

\* the required field names
Required == {REQUIRED_FIELDS[i] : i \in 1..Len(REQUIRED_FIELDS)}

\* a value no number can be made of: null, or text that is not a number
NotANumber(v) == v = JNull \/ (v.t = "str" /\ ~IsNumeral(v.s))

\* the verdict C13 gives for event e sent by thread t, read off the step
C13_Verdict(t, e) ==
  LET absent == Required \ DOMAIN e
      numbers == (NullableKeys \cup {"volume", "seq", "acc_balance", "acc_equity"})
                   \cap DOMAIN e
      upper == Upper(PyStr(e["action"]))
  IN IF absent # {}
       THEN /\ resp'.status = 400 /\ resp'.err = "MissingFields"
            /\ {resp'.names[i] : i \in 1..Len(resp'.names)} = absent
            /\ Len(resp'.names) = Cardinality(absent)
            /\ UNCHANGED pc
     ELSE IF \E k \in numbers : NotANumber(e[k])
       THEN resp'.status = 400 /\ resp'.err = "InvalidTypes" /\ UNCHANGED pc
     ELSE IF upper \notin Actions \cup LegacyActions
       THEN /\ resp'.status = 400 /\ resp'.err = "UnsupportedAction"
            /\ resp'.names = <<upper>>
            /\ UNCHANGED pc
     ELSE /\ pc'[t] = "calling"
          /\ evt'[t]["action"] = JStr(upper)
          /\ (e["action"].s = <<"o","p","e","n","_","b","u","y">> =>
                evt'[t]["action"].s = <<"O","P","E","N","_","B","U","Y">>)

\* C13: validate_event classifies by a fixed precedence: absent required
\* fields give MissingFields naming all of them; otherwise a failed coercion
\* gives InvalidTypes; otherwise an action that, upper-cased, is neither in
\* the action set nor a legacy alias gives UnsupportedAction naming it;
\* otherwise the event goes on to add with its action in upper case.
C13_ValidationPrecedence ==
  [][\A t \in Threads : \A rq \in ValidatePub :
       Publish(t, rq) => C13_Verdict(t, rq.body.o)]_vars

\* an event lacking two fields, with volume "abc" and action TELEPORT as
\* well, was rejected for the two absent fields
C13_Witness ==
  /\ resp.op = "publish" /\ resp.status = 400 /\ resp.err = "MissingFields"
  /\ Len(resp.names) = 2
  /\ resp.rq.body.o["volume"] = JStr(<<"a", "b", "c">>)
  /\ resp.rq.body.o["action"] = JStr(<<"T","E","L","E","P","O","R","T">>)

\* C14 (as claimed): an event with every required field in which some of
\* sl, tp, position_id, deal_ticket, order_ticket, magic are null is
\* accepted, the null floats stored as 0.0 and the null integers as 0.
C14_Original ==
  [][\A t \in Threads : \A rq \in NullPub :
       Publish(t, rq) =>
         /\ pc'[t] = "calling"
         /\ \A k \in NullableKeys :
              rq.body.o[k] = JNull =>
                evt'[t][k] = IF k \in {"sl", "tp"} THEN JFlt(0) ELSE JInt(0)]_vars

\* the first strategy, in the order of C16, that makes an object of request
\* rq as it was sent (0: none), and that object
C16_First(rq) ==
  LET hits == {i \in 1..Len(FormKeys) :
                 FormKeys[i] \in DOMAIN rq.form /\ rq.form[FormKeys[i]].k \in {"obj", "nulobj"}}
      hit == CHOOSE i \in hits : \A j \in hits : i <= j
  IN IF rq.body.k = "obj" THEN [by |-> 1, obj |-> rq.body.o]
     ELSE IF rq.body.k \in {"nulobj", "dbl"} THEN [by |-> 2, obj |-> rq.body.o]
     ELSE IF rq.body.k = "junkobj" THEN [by |-> 3, obj |-> rq.body.o]
     ELSE IF hits # {} THEN [by |-> 4, obj |-> rq.form[FormKeys[hit]].o]
     ELSE [by |-> 0, obj |-> EmptyDict]

\* C16 (as claimed): the object handed to validation is the one of the
\* earliest strategy that succeeds on the request (body directly, cleaned
\* text or double-encoded string, text between the braces, form fields json,
\* data, body in that order), and the request is answered BadPayload, with
\* content type, raw length and a preview of at most 400 bytes, exactly
\* when no strategy yields an object.
C16_Original ==
  [][\A t \in Threads : \A rq \in NormalizePub :
       Publish(t, rq) =>
         IF C16_First(rq).by = 0
           THEN /\ resp'.status = 400 /\ resp'.err = "BadPayload"
                /\ resp'.diag.content_type = rq.ct
                /\ resp'.diag.raw_len = rq.raw_len
                /\ resp'.diag.raw_preview <= 400
                /\ resp'.diag.raw_preview <= rq.raw_len
           ELSE /\ resp'.err # "BadPayload"
                /\ pc'[t] = "calling"
                /\ evt'[t]["comment"] = C16_First(rq).obj["comment"]]_vars

\* the ids of the records the client has received, in order of receipt
GotIds == [i \in 1..Len(consumer.got) |-> IdOf(consumer.got[i])]

\* what the client holds is right: ascending ids, each once, and every
\* stored record up to the cursor, which is the largest id received
CursorSound ==
  /\ \A i, j \in 1..Len(GotIds) : i < j => GotIds[i] < GotIds[j]
  /\ consumer.got = SelectSeq(events, LAMBDA e : IdOf(e) <= consumer.cursor)
  /\ consumer.cursor = IF consumer.got = << >> THEN 0 ELSE GotIds[Len(GotIds)]

\* C17: a client that starts at cursor 0 and polls since(cursor), moving the
\* cursor to the largest id received, holds at every moment the stored
\* records up to its cursor, each once and in ascending id order, whatever
\* adds run beside it; a poll leaves it with every record appended so far,
\* a poll made when it has them all returns nothing.
C17_GlobalCursor ==
  /\ []CursorSound
  /\ [][resp'.op = "stream" =>
          /\ consumer'.got = events'
          /\ consumer.got = events => resp'.body = << >>]_vars

\* the client has received records in more than one poll while publishers
\* were adding, and its latest poll returned nothing
C17_Witness ==
  /\ resp.op = "stream" /\ resp.status = 200 /\ resp.body = << >>
  /\ Len(consumer.got) >= 2
  /\ consumer.got = events

\* C18 (as claimed): the store lock is not held while add writes to the
\* file: when a thread is at its durable write the lock is free, so a read
\* is not kept waiting by the write.
C18_Original == \A t \in Threads : (persist /\ pc[t] = "stamped") => LockFree

\* the stored records of producer key K, in the order they were appended
Mine(K) == SelectSeq(events, LAMBDA e : HasKey(e) /\ KeyOf(e) = K)

\* the records of K were appended with seq > 0 in strictly increasing order
Increasing(K) ==
  /\ \A i \in 1..Len(Mine(K)) : SeqOf(Mine(K)[i]) > 0
  /\ \A i, j \in 1..Len(Mine(K)) : i < j => SeqOf(Mine(K)[i]) < SeqOf(Mine(K)[j])

\* what the client of key K holds is right: the records of K up to its
\* cursor, each once, in ascending seq order, and no record of another key
KeyCursorSound(K) ==
  Increasing(K) =>
    /\ consumer.got = SelectSeq(Mine(K), LAMBDA e : SeqOf(e) <= consumer.cursor)
    /\ \A i, j \in 1..Len(consumer.got) :
         i < j => SeqOf(consumer.got[i]) < SeqOf(consumer.got[j])
    /\ \A i \in 1..Len(consumer.got) : KeyOf(consumer.got[i]) = K

\* a poll leaves the client of key K with every record of K appended so far
KeyPollComplete(K) ==
  (resp'.op = "stream" /\ Increasing(K)) =>
    /\ resp'.status = 200
    /\ consumer'.got = Mine(K)

\* C19 (as claimed): for every producer key K whose records are appended in
\* strictly increasing seq order with seq > 0, the client that polls
\* since_seq(K, cursor) from cursor 0, moving the cursor to the largest seq
\* received, receives every record of K once, in ascending seq order, and no
\* record of another key, whatever is appended for other keys.
C19_Original ==
  /\ []KeyCursorSound(consumer.key)
  /\ [][KeyPollComplete(consumer.key)]_vars

\* a key as since_seq looks it up: not empty, no blank at either end
PlainKey(K) == K # << >> /\ Strip(K) = K

\* C19: the same for every producer key K that is not empty and has no
\* leading or trailing whitespace.
C19_KeyedCursorProtocol ==
  /\ [](PlainKey(consumer.key) => KeyCursorSound(consumer.key))
  /\ [][PlainKey(consumer.key) => KeyPollComplete(consumer.key)]_vars

\* the client of key A has received two records of A in increasing seq order
\* while a record of key B was appended as well
C19_Witness ==
  /\ consumer.key = KeyA
  /\ Increasing(KeyA)
  /\ Len(consumer.got) >= 2
  /\ consumer.got = Mine(KeyA)
  /\ Len(Mine(KeyB)) >= 1

\* the integer a watermark text of the dispatch requests stands for
Watermark(text) == IF Strip(text) = <<"1">> THEN 1 ELSE 0

\* the response has one line per returned record, in the order returned
OneLinePerRecord ==
  /\ Len(resp.lines) = Len(resp.body)
  /\ \A i \in 1..Len(resp.body) : resp.lines[i] = Line("obj", resp.body[i])

\* C20 (as claimed): an authorized stream request is answered by the keyed
\* cursor over the records of the trader_key it gives exactly when the
\* trader_key and the since_seq it gives are both non-empty, else by the
\* global id cursor; a watermark that is no integer counts as 0; the answer
\* has one line per returned record.
C20_Original ==
  resp.op = "stream" =>
    LET k == Arg(resp.rq.args, "trader_key", << >>)
        n == Arg(resp.rq.args, "since_seq", << >>)
        i == Arg(resp.rq.args, "since", <<"0">>)
    IN /\ resp.status = 200
       /\ IF k # << >> /\ n # << >>
            THEN resp.mode = "seq" /\ IsKeyedAnswer(resp.body, k, Watermark(n))
            ELSE resp.mode = "id" /\ IsIdAnswer(resp.body, Watermark(i))
       /\ OneLinePerRecord

\* C20 (amended): the same with both parameters taken after stripping
\* whitespace: the keyed cursor answers exactly when the stripped trader_key
\* and the stripped since_seq are both non-empty, over the records whose key
\* equals the stripped trader_key; in every other case, a trader_key without
\* since_seq included, the global id cursor answers over all producers.
C20_CursorDispatch ==
  resp.op = "stream" =>
    LET k == Strip(Arg(resp.rq.args, "trader_key", << >>))
        n == Strip(Arg(resp.rq.args, "since_seq", << >>))
        i == Arg(resp.rq.args, "since", <<"0">>)
    IN /\ resp.status = 200
       /\ IF k # << >> /\ n # << >>
            THEN resp.mode = "seq" /\ IsKeyedAnswer(resp.body, k, Watermark(n))
            ELSE resp.mode = "id" /\ IsIdAnswer(resp.body, Watermark(i))
       /\ OneLinePerRecord

\* a keyed read with a watermark that is no integer returned both records of
\* the key, in seq order against their id order, one line each, while the
\* store held a record of another producer
C20_Witness ==
  /\ resp.op = "stream" /\ resp.status = 200 /\ resp.mode = "seq"
  /\ Arg(resp.rq.args, "since_seq", << >>) = <<"x">>
  /\ Len(resp.body) = 2 /\ Len(resp.lines) = 2
  /\ IdOf(resp.body[1]) > IdOf(resp.body[2])
  /\ \E j \in 1..Len(events) : KeyOf(events[j]) # KeyA

\* a read that gives a trader_key and no since_seq was answered by the global
\* cursor with records of two producers
C20_KeyWithoutSeq ==
  /\ resp.op = "stream" /\ resp.mode = "id"
  /\ Arg(resp.rq.args, "trader_key", << >>) = KeyA
  /\ "since_seq" \notin DOMAIN resp.rq.args
  /\ \E a, b \in 1..Len(resp.body) : KeyOf(resp.body[a]) # KeyOf(resp.body[b])

====
